---- MODULE Spec2Model ----
(***************************************************************************)
(* A model of the DWD forecast ingestion pipeline of efa:                  *)
(*   - process_dwd_data/processor.py      (parallel collector, builder)    *)
(*   - process_dwd_data/file_discovery.py (filename parser, discovery)     *)
(*   - tables/core.py                     (schema-validated table store)   *)
(*   - process_dwd_data/grib_reader.py    (scratch workspace of the pool)  *)
(* Each component has its own specification over the shared variables;     *)
(* a specification leaves the variables of the other components alone.     *)
(***************************************************************************)
EXTENDS Integers, Sequences, FiniteSets, TLC

\* ------------------------------------------------------------------------
\* Bounds of the model
\* ------------------------------------------------------------------------
NumLocs == 2        \* configured locations are 1..NumLocs
MaxTime == 2        \* valid times an extractor can report are 1..MaxTime
MaxVal == 2         \* scalar values an extractor can report are 1..MaxVal
MaxFiles == 3       \* longest file list handed to the collector
MaxJoinTime == 3    \* valid times of the series handed to the builder
MaxSamples == 3     \* longest series handed to the builder
MaxJoinVal == 1     \* scalar values of the series handed to the builder
MaxVarTokens == 3   \* a variable name has at most MaxVarTokens - 1 underscores
MaxHour == 2        \* forecast hours of the files on disk are 0..MaxHour
MaxCutoff == 1      \* the cutoffs max_forecast_hours tried are 0..MaxCutoff
MaxRuns == 2        \* run directories under data_path
MaxListing == 2     \* files in one run directory
NumInstances == 2   \* Table instances opened on the same table
MaxBatch == 2       \* rows of one DataFrame handed to write / save_to_duckdb
MaxRows == 2        \* rows the stored table is let grow to
LongFiles == 32     \* a file list long enough for chunks of two files
MaxDeepRows == 2    \* rows of a frame handed to _validate_deep
NumWorkers == 2     \* worker processes of the pool
MaxWorkFiles == 3   \* files the workers of one run decode

Locs == 1..NumLocs
Times == 1..MaxTime
Values == 1..MaxVal

\* os.cpu_count() of the host: 0 stands for None (unknown), 8 for an 8-core host
CpuCounts == {0, 8}

\* ------------------------------------------------------------------------
\* Generic helpers
\* ------------------------------------------------------------------------
Max(a, b) == IF a >= b THEN a ELSE b

\* Optional values: None is Python's None / a polars null, Some(v) a value
None == <<>>
Some(v) == <<v>>

\* ------------------------------------------------------------------------
\* State
\* ------------------------------------------------------------------------
VARIABLES
    \* --- ParallelCollector: process_variable_from_files ---
    cpu_count,        \* os.cpu_count() (0 = None)
    file_paths,       \* the file list, in discovery traversal order (file ids)
    extract,          \* the injected extractor: file id -> outcome
    pc,               \* "submit", "pool", "returned", "raised"
    pending,          \* chunk indices whose future has not been consumed yet
    location_data,    \* loc_idx -> list of samples, merged in completion order
    total_processed,
    total_failed,
    result_dfs,       \* loc_idx -> deduplicated, sorted series
    \* --- TimeseriesBuilder: build_dataset ---
    all_location_data,    \* loc_idx -> (col_name -> series)
    bpc,                  \* "idle", "start", "returned", "raised"
    location_dataframes,  \* the per-location wide tables, in iteration order
    combined_df,          \* the table build_dataset returns
    \* --- FilenameParser: parse_dwd_filename ---
    parse_input,      \* the pieces the file name was put together from
    filename,         \* the file name handed to parse_dwd_filename
    parse_pc,         \* "idle", "call", "returned"
    parse_result,     \* the descriptor returned (NoMatch stands for None)
    \* --- Discovery: find_all_files_once / find_variable_files ---
    tree,                 \* data_path: entry name -> [is_dir, listing]
    max_forecast_hours,   \* the cutoff
    dpc,                  \* "idle", "ready", "all_done", "var_done"
    query,                \* the (variable, level) asked of find_variable_files
    files_by_var,         \* result of find_all_files_once
    files_to_process,     \* result of find_variable_files
    \* --- SchemaValidator + Store: tables/core.py, core.py ---
    store,            \* the DuckDB file: table name -> [columns, rows]
    shape_cache,      \* Table instance -> its _shape (None or Some(<<rows, cols>>))
    last_call,        \* the last call made: what was called, with which
                      \* arguments, how it ended, and the stored row count
                      \* it found
    returned,         \* what the last call returned (None when it raised)
    \* --- the pipeline run: collect every variable key, then build ---
    todo,             \* the variable keys still to be collected
    current,          \* the variable key being collected (None: none)
    \* --- SchemaValidator: Table._validate_deep ---
    deep_input,       \* the rows handed to _validate_deep
    deep_pc,          \* "idle", "call", "passed", "failed"
    deep_report,      \* the failure cases of the error it reported
    \* --- grib_reader: the scratch workspace TEMP_DIR ---
    start_method,     \* how the pool starts workers: "fork" or "spawn"
    wpc,              \* "idle", "import", "pool"
    workspace,        \* the index artifacts present in TEMP_DIR
    workers,          \* worker -> [state, file]
    work_queue        \* the files no worker has taken yet

collectorVars == <<cpu_count, file_paths, extract, pc, pending, location_data,
                   total_processed, total_failed, result_dfs>>

builderVars == <<all_location_data, bpc, location_dataframes, combined_df>>

parserVars == <<parse_input, filename, parse_pc, parse_result>>

discoveryVars == <<tree, max_forecast_hours, dpc, query, files_by_var,
                   files_to_process>>

tableVars == <<store, shape_cache, last_call, returned>>

pipelineVars == <<todo, current>>

validatorVars == <<deep_input, deep_pc, deep_report>>

workspaceVars == <<start_method, wpc, workspace, workers, work_queue>>

vars == <<collectorVars, builderVars, parserVars, discoveryVars, tableVars,
          pipelineVars, validatorVars, workspaceVars>>

\* ------------------------------------------------------------------------
\* PointExtractor (injected capability): outcome of one file
\* ------------------------------------------------------------------------
\* A file either fails as a whole, or yields ONE valid time and a value for
\* each location whose lookup succeeded (the others are silently omitted).
Outcomes ==
    {[ok |-> FALSE]} \cup
    {[ok |-> TRUE, time |-> t, vals |-> f] :
        t \in Times, f \in UNION {[S -> Values] : S \in SUBSET Locs}}

\* ------------------------------------------------------------------------
\* processor.py: _process_chunk
\* ------------------------------------------------------------------------
\* (mutant) a chunk that gives up at its first failing file
RECURSIVE ChunkSamplesUntilFailure(_, _, _)
ChunkSamplesUntilFailure(chunk, ex, loc) ==
    IF chunk = <<>> \/ ~ex[Head(chunk)].ok THEN <<>>
    ELSE LET o == ex[Head(chunk)]
             rest == ChunkSamplesUntilFailure(Tail(chunk), ex, loc)
         IN IF loc \in DOMAIN o.vals
            THEN <<[time |-> o.time, value |-> o.vals[loc]]>> \o rest
            ELSE rest

\* The samples one chunk collects for location loc, in the chunk's file order
RECURSIVE ChunkSamples(_, _, _)
ChunkSamples(chunk, ex, loc) ==
    IF chunk = <<>> THEN <<>>
    ELSE LET o == ex[Head(chunk)]
             rest == ChunkSamples(Tail(chunk), ex, loc)
         IN IF o.ok /\ loc \in DOMAIN o.vals
            THEN <<[time |-> o.time, value |-> o.vals[loc]]>> \o rest
            ELSE rest

ProcessChunk(chunk, ex) ==
    LET okFiles == {i \in 1..Len(chunk) : ex[chunk[i]].ok}
        keys == {loc \in Locs : ChunkSamples(chunk, ex, loc) # <<>>}
    IN [results |-> [loc \in keys |-> ChunkSamples(chunk, ex, loc)],
        processed |-> Cardinality(okFiles),
        failed |-> Len(chunk) - Cardinality(okFiles)]

\* ------------------------------------------------------------------------
\* processor.py: process_variable_from_files
\* ------------------------------------------------------------------------
\* max(4, int((os.cpu_count() or 4) * 0.75))
MaxWorkers(cpu) == Max(4, ((IF cpu = 0 THEN 4 ELSE cpu) * 3) \div 4)

\* max(1, len(file_paths) // (max_workers * 4))
ChunkSize(n, cpu) == Max(1, n \div (MaxWorkers(cpu) * 4))

\* [file_paths[i:i + chunk_size] for i in range(0, len(file_paths), chunk_size)]
NumChunks(n, cpu) == (n + ChunkSize(n, cpu) - 1) \div ChunkSize(n, cpu)

Chunks(paths, cpu) ==
    LET n == Len(paths)
        cs == ChunkSize(n, cpu)
    IN [c \in 1..NumChunks(n, cpu) |->
            SubSeq(paths, (c - 1) * cs + 1, IF c * cs <= n THEN c * cs ELSE n)]

\* location_data[loc_idx].extend(data_list) for every key of chunk_results
MergeChunk(data, chunk_results) ==
    [loc \in (DOMAIN data) \cup (DOMAIN chunk_results) |->
        (IF loc \in DOMAIN data THEN data[loc] ELSE <<>>) \o
        (IF loc \in DOMAIN chunk_results THEN chunk_results[loc] ELSE <<>>)]

\* (mutant) no deduplication at all
UniqueKeepAll(data) == data

\* df.unique(subset=["time"], keep="last"): of the rows that share a time the
\* one that comes last in the frame is kept
UniqueKeepLast(data) ==
    LET keep == {i \in 1..Len(data) :
                    \A j \in (i + 1)..Len(data) : data[j].time # data[i].time}
        F[i \in 0..Len(data)] ==
            IF i = 0 THEN <<>>
            ELSE IF i \in keep THEN Append(F[i - 1], data[i]) ELSE F[i - 1]
    IN F[Len(data)]

\* df.sort("time"): ascending, rows of equal time keep their order
RECURSIVE SortByTime(_)
SortByTime(rows) ==
    IF rows = <<>> THEN <<>>
    ELSE LET m == CHOOSE i \in 1..Len(rows) :
                    /\ \A j \in 1..Len(rows) : rows[i].time <= rows[j].time
                    /\ \A j \in 1..(i - 1) : rows[j].time # rows[i].time
             others == [k \in 1..(Len(rows) - 1) |->
                            IF k < m THEN rows[k] ELSE rows[k + 1]]
         IN <<rows[m]>> \o SortByTime(others)

\* lines 88-105: one frame per key of location_data
BuildResultDfs(data) ==
    [loc \in DOMAIN data |->
        IF data[loc] = <<>> THEN <<>>
        ELSE SortByTime(UniqueKeepLast(data[loc]))]

\* The builder before any call of build_dataset
BuilderIdle ==
    /\ all_location_data = <<>>
    /\ bpc = "idle"
    /\ location_dataframes = <<>>
    /\ combined_df = [columns |-> <<>>, rows |-> <<>>]

\* parse_dwd_filename returning None
NoMatch == [matched |-> FALSE]

\* The parser before any call of parse_dwd_filename
ParserIdle ==
    /\ parse_input = <<>>
    /\ filename = <<>>
    /\ parse_pc = "idle"
    /\ parse_result = NoMatch

\* Discovery before any scan
DiscoveryIdle ==
    /\ tree = <<>>
    /\ max_forecast_hours = 0
    /\ dpc = "idle"
    /\ query = <<>>
    /\ files_by_var = <<>>
    /\ files_to_process = <<>>

\* Table instances are 1..NumInstances, all bound to the same table name
Instances == 1..NumInstances

\* A fresh database file and freshly constructed Table instances
\* (tables/core.py:42-44: _shape = None)
TablesFresh ==
    /\ store = <<>>
    /\ shape_cache = [i \in Instances |-> None]
    /\ last_call = [op |-> "none", outcome |-> "none", instance |-> 0,
                    mode |-> "none", batch |-> 0, rows_before |-> 0,
                    shallow |-> "not_run", deep |-> "not_requested"]
    /\ returned = None

\* No pipeline run under way
PipelineIdle ==
    /\ todo = <<>>
    /\ current = None

\* _validate_deep not called
ValidatorIdle ==
    /\ deep_input = <<>>
    /\ deep_pc = "idle"
    /\ deep_report = {}

\* grib_reader not loaded, no pool
WorkspaceIdle ==
    /\ start_method = "fork"
    /\ wpc = "idle"
    /\ workspace = {}
    /\ workers = <<>>
    /\ work_queue = <<>>

Init ==
    /\ BuilderIdle
    /\ ParserIdle
    /\ DiscoveryIdle
    /\ TablesFresh
    /\ PipelineIdle
    /\ ValidatorIdle
    /\ WorkspaceIdle
    /\ cpu_count \in CpuCounts
    /\ \E n \in 0..MaxFiles :
          /\ file_paths = [i \in 1..n |-> i]
          /\ extract \in [1..n -> Outcomes]
    /\ pc = "submit"
    /\ pending = {}
    /\ location_data = <<>>
    /\ total_processed = 0
    /\ total_failed = 0
    /\ result_dfs = <<>>

\* lines 51-71: chunk the list and submit one future per chunk
Submit ==
    /\ pc = "submit"
    /\ pending' = DOMAIN Chunks(file_paths, cpu_count)
    /\ pc' = "pool"
    /\ UNCHANGED <<cpu_count, file_paths, extract, location_data,
                   total_processed, total_failed, result_dfs>>
    /\ UNCHANGED <<builderVars, parserVars, discoveryVars, tableVars,
                 pipelineVars, validatorVars, workspaceVars>>

\* lines 73-80: as_completed hands over the next finished chunk, whichever it
\* is, and the coordinator merges it
ChunkCompleted(c) ==
    /\ pc = "pool"
    /\ c \in pending
    /\ LET r == ProcessChunk(Chunks(file_paths, cpu_count)[c], extract)
       IN /\ total_processed' = total_processed + r.processed
          /\ total_failed' = total_failed + r.failed
          /\ location_data' = MergeChunk(location_data, r.results)
    /\ pending' = pending \ {c}
    /\ UNCHANGED <<cpu_count, file_paths, extract, pc, result_dfs>>
    /\ UNCHANGED <<builderVars, parserVars, discoveryVars, tableVars,
                 pipelineVars, validatorVars, workspaceVars>>

\* lines 85-111: build the frames, log the success rate, return.  The success
\* rate divides by len(file_paths): an empty list raises ZeroDivisionError.
Finish ==
    /\ pc = "pool"
    /\ pending = {}
    /\ result_dfs' = BuildResultDfs(location_data)
    /\ pc' = IF Len(file_paths) = 0 THEN "raised" ELSE "returned"
    /\ UNCHANGED <<cpu_count, file_paths, extract, pending, location_data,
                   total_processed, total_failed>>
    /\ UNCHANGED <<builderVars, parserVars, discoveryVars, tableVars,
                 pipelineVars, validatorVars, workspaceVars>>

Next ==
    \/ Submit
    \/ \E c \in pending : ChunkCompleted(c)
    \/ Finish

Spec == Init /\ [][Next]_vars

\* ------------------------------------------------------------------------
\* Properties of the collector
\* ------------------------------------------------------------------------
\* The positions of file_paths whose file yielded a sample for loc at time t
SourcesOf(loc, t) ==
    {f \in 1..Len(file_paths) :
        /\ extract[file_paths[f]].ok
        /\ loc \in DOMAIN extract[file_paths[f]].vals
        /\ extract[file_paths[f]].time = t}

\* C1: for every location, the value kept for a valid time is the one of the
\* file that comes latest in traversal order among the files that yielded
\* that time, whatever order the chunks completed in.
C1_LastWriteWinsByTraversal ==
    pc = "returned" =>
        \A loc \in DOMAIN result_dfs : \A k \in 1..Len(result_dfs[loc]) :
            LET row == result_dfs[loc][k]
                src == SourcesOf(loc, row.time)
            IN /\ src # {}
               /\ row.value =
                    extract[file_paths[CHOOSE f \in src : \A g \in src : g <= f]]
                        .vals[loc]

\* C2: every returned series has pairwise distinct timestamps and is sorted
\* in strictly ascending time order.
C2_SeriesStrictlyAscending ==
    pc = "returned" =>
        \A loc \in DOMAIN result_dfs :
            \A i, j \in 1..Len(result_dfs[loc]) :
                i < j => result_dfs[loc][i].time < result_dfs[loc][j].time

\* C2 witness: a returned series of two rows made from a merged list that
\* held a duplicate timestamp and was out of time order.
C2_Witness ==
    /\ pc = "returned"
    /\ \E loc \in DOMAIN result_dfs :
          /\ Len(result_dfs[loc]) >= 2
          /\ Len(location_data[loc]) > Len(result_dfs[loc])
          /\ \E i \in 1..(Len(location_data[loc]) - 1) :
                location_data[loc][i].time > location_data[loc][i + 1].time

\* C5 (collector half): the returned dict has an entry, possibly an empty
\* series, for every configured location.
C5_EntryForEveryLocation ==
    pc = "returned" => DOMAIN result_dfs = Locs

\* C6: when every file fails (also: when there is no file at all) the call
\* ends by returning an empty result set, never by raising.
C6_AllFailedReturnsEmpty ==
    (pc \in {"returned", "raised"}
        /\ \A f \in 1..Len(file_paths) : ~extract[file_paths[f]].ok)
    => (pc = "returned" /\ result_dfs = <<>>)

\* ------------------------------------------------------------------------
\* processor.py: build_dataset
\* ------------------------------------------------------------------------
\* config.locations: the configured (lat, lon) of every location index
Locations == [i \in Locs |-> [lat |-> 50 + i, lon |-> 9 + i]]

\* The column names a run can produce, in the order sorted() puts them
ColumnOrder == <<"t_2m", "u_level61">>
Cols == {ColumnOrder[i] : i \in 1..Len(ColumnOrder)}

\* sorted(var_data.keys())
SortedKeys(keys) ==
    LET F[i \in 0..Len(ColumnOrder)] ==
            IF i = 0 THEN <<>>
            ELSE IF ColumnOrder[i] \in keys
                 THEN Append(F[i - 1], ColumnOrder[i]) ELSE F[i - 1]
    IN F[Len(ColumnOrder)]

RECURSIVE Flatten(_)
Flatten(seqs) ==
    IF seqs = <<>> THEN <<>> ELSE Head(seqs) \o Flatten(Tail(seqs))

\* var_data[key].rename({"value": key}): a frame with columns (time, key)
RenameValue(series, key) ==
    [columns |-> <<"time", key>>,
     rows |-> [i \in 1..Len(series) |->
                  ("time" :> series[i].time) @@ (key :> Some(series[i].value))]]

\* (mutant) a left join: rows of the right frame without a partner are lost
LeftJoin(left, right) ==
    LET rkey == right.columns[2]
        Partners(i) == {j \in 1..Len(right.rows) :
                            right.rows[j].time = left.rows[i].time}
        LeftRow(i) ==
            IF Partners(i) = {} THEN left.rows[i] @@ (rkey :> None)
            ELSE left.rows[i] @@
                 (rkey :> right.rows[CHOOSE j \in Partners(i) : TRUE][rkey])
    IN [columns |-> Append(left.columns, rkey),
        rows |-> [i \in 1..Len(left.rows) |-> LeftRow(i)]]

\* base_df.join(other_df, on="time", how="outer_coalesce"): every left row is
\* paired with each right row of the same time (or with nulls when there is
\* none); right rows without a partner follow, null in the left columns
OuterJoinCoalesce(left, right) ==
    LET rkey == right.columns[2]
        Partners(i) == {j \in 1..Len(right.rows) :
                            right.rows[j].time = left.rows[i].time}
        LeftRows(i) ==
            IF Partners(i) = {} THEN <<left.rows[i] @@ (rkey :> None)>>
            ELSE LET G[j \in 0..Len(right.rows)] ==
                        IF j = 0 THEN <<>>
                        ELSE IF j \in Partners(i)
                             THEN Append(G[j - 1],
                                    left.rows[i] @@ (rkey :> right.rows[j][rkey]))
                             ELSE G[j - 1]
                 IN G[Len(right.rows)]
        lonely == {j \in 1..Len(right.rows) :
                      \A i \in 1..Len(left.rows) :
                          left.rows[i].time # right.rows[j].time}
        RightRow(j) ==
            [c \in {left.columns[k] : k \in 1..Len(left.columns)} \ {"time"}
                |-> None]
            @@ ("time" :> right.rows[j].time) @@ (rkey :> right.rows[j][rkey])
        H[j \in 0..Len(right.rows)] ==
            IF j = 0 THEN <<>>
            ELSE IF j \in lonely THEN Append(H[j - 1], RightRow(j)) ELSE H[j - 1]
    IN [columns |-> Append(left.columns, rkey),
        rows |-> Flatten([i \in 1..Len(left.rows) |-> LeftRows(i)])
                 \o H[Len(right.rows)]]

\* lines 139-149: rename the first series, join the others in key order, sort
RECURSIVE JoinAll(_, _, _)
JoinAll(base, keys, var_data) ==
    IF keys = <<>> THEN base
    ELSE JoinAll(OuterJoinCoalesce(base, RenameValue(var_data[Head(keys)], Head(keys))),
                 Tail(keys), var_data)

\* lines 152-155: constant latitude / longitude columns of locations[loc_idx]
WithLocation(df, loc_idx) ==
    [columns |-> df.columns \o <<"latitude", "longitude">>,
     rows |-> [i \in 1..Len(df.rows) |->
                  df.rows[i] @@ ("latitude" :> Locations[loc_idx].lat)
                             @@ ("longitude" :> Locations[loc_idx].lon)]]

\* lines 139-155: the wide table of one location
WideTable(var_data, loc_idx) ==
    LET keys == SortedKeys(DOMAIN var_data)
        base == RenameValue(var_data[keys[1]], keys[1])
        joined == JoinAll(base, Tail(keys), var_data)
    IN WithLocation([columns |-> joined.columns,
                     rows |-> SortByTime(joined.rows)], loc_idx)

\* (mutant) a stacking that keeps one row per timestamp
ConcatOneRowPerTime(dfs) ==
    LET all == Flatten([i \in 1..Len(dfs) |-> dfs[i].rows])
        keep == {i \in 1..Len(all) :
                    \A j \in 1..(i - 1) : all[j].time # all[i].time}
        F[i \in 0..Len(all)] ==
            IF i = 0 THEN <<>>
            ELSE IF i \in keep THEN Append(F[i - 1], all[i]) ELSE F[i - 1]
    IN IF \A i \in 1..Len(dfs) : dfs[i].columns = dfs[1].columns
       THEN [ok |-> TRUE, df |-> [columns |-> dfs[1].columns, rows |-> F[Len(all)]]]
       ELSE [ok |-> FALSE]

\* pl.concat(location_dataframes): vertical stacking; frames whose columns
\* differ from the first frame's make it raise
Concat(dfs) ==
    IF \A i \in 1..Len(dfs) : dfs[i].columns = dfs[1].columns
    THEN [ok |-> TRUE,
          df |-> [columns |-> dfs[1].columns,
                  rows |-> Flatten([i \in 1..Len(dfs) |-> dfs[i].rows])]]
    ELSE [ok |-> FALSE]

\* The series process_variable_from_files can return for one location: the
\* deduplicated, sorted form of a non-empty list of samples
SeriesSet ==
    {SortByTime(UniqueKeepLast(raw)) :
        raw \in UNION {[1..n -> [time : 1..MaxJoinTime, value : 1..MaxJoinVal]] :
                          n \in 1..MaxSamples}}


\* The collector before any call of process_variable_from_files
CollectorIdle ==
    /\ cpu_count = 0
    /\ file_paths = <<>>
    /\ extract = <<>>
    /\ pc = "idle"
    /\ pending = {}
    /\ location_data = <<>>
    /\ total_processed = 0
    /\ total_failed = 0
    /\ result_dfs = <<>>

InitBuild ==
    /\ CollectorIdle
    /\ ParserIdle
    /\ DiscoveryIdle
    /\ TablesFresh
    /\ PipelineIdle
    /\ ValidatorIdle
    /\ WorkspaceIdle
    /\ all_location_data \in
          UNION {[S -> UNION {[C -> SeriesSet] : C \in SUBSET Cols}] :
                    S \in SUBSET Locs}
    /\ bpc = "start"
    /\ location_dataframes = <<>>
    /\ combined_df = [columns |-> <<>>, rows |-> <<>>]

\* The orders in which a dict with the given keys can be iterated
Orders(keys) ==
    {o \in [1..Cardinality(keys) -> keys] :
        \A i, j \in 1..Cardinality(keys) : i # j => o[i] # o[j]}

\* build_dataset, lines 128-165.  order is the iteration order of
\* all_location_data (the insertion order of the dict the caller built).
BuildDataset(order) ==
    /\ bpc = "start"
    /\ LET used == SelectSeq(order, LAMBDA l : DOMAIN all_location_data[l] # {})
           frames == [i \in 1..Len(used) |->
                         [loc_idx |-> used[i],
                          df |-> WideTable(all_location_data[used[i]], used[i])]]
           stacked == Concat([i \in 1..Len(frames) |-> frames[i].df])
       IN /\ location_dataframes' = frames
          /\ IF frames = <<>>
             THEN /\ combined_df' = [columns |-> <<>>, rows |-> <<>>]
                  /\ bpc' = "returned"
             ELSE IF stacked.ok
             THEN /\ combined_df' = stacked.df
                  /\ bpc' = "returned"
             ELSE /\ combined_df' = combined_df
                  /\ bpc' = "raised"
    /\ UNCHANGED all_location_data
    /\ UNCHANGED <<collectorVars, parserVars, discoveryVars, tableVars,
                 pipelineVars, validatorVars, workspaceVars>>

NextBuild == \E order \in Orders(DOMAIN all_location_data) : BuildDataset(order)

SpecBuild == InitBuild /\ [][NextBuild]_vars

\* ------------------------------------------------------------------------
\* Properties of the builder
\* ------------------------------------------------------------------------
SeriesTimes(series) == {series[i].time : i \in 1..Len(series)}

\* The union of the timestamps of all variable series of one location
UnionTimes(loc) ==
    UNION {SeriesTimes(all_location_data[loc][k]) :
              k \in DOMAIN all_location_data[loc]}

\* C3: the wide table of a location has exactly one row per timestamp of the
\* union of its series' timestamps, and a variable's column is null in
\* exactly the rows whose timestamp the variable's series lacks.
C3_WideTableIsOuterJoin ==
    bpc \in {"returned", "raised"} =>
        \A n \in 1..Len(location_dataframes) :
            LET loc == location_dataframes[n].loc_idx
                rows == location_dataframes[n].df.rows
            IN /\ Len(rows) = Cardinality(UnionTimes(loc))
               /\ {rows[i].time : i \in 1..Len(rows)} = UnionTimes(loc)
               /\ \A k \in DOMAIN all_location_data[loc] :
                     \A i \in 1..Len(rows) :
                        (rows[i][k] = None) <=>
                        (rows[i].time \notin SeriesTimes(all_location_data[loc][k]))

\* C3 witness: X at {1,2} and Y at {2,3} joined into rows {1,2,3}
C3_Witness ==
    /\ bpc = "returned"
    /\ \E n \in 1..Len(location_dataframes) :
          LET loc == location_dataframes[n].loc_idx
              rows == location_dataframes[n].df.rows
          IN /\ DOMAIN all_location_data[loc] = Cols
             /\ SeriesTimes(all_location_data[loc]["t_2m"]) = {1, 2}
             /\ SeriesTimes(all_location_data[loc]["u_level61"]) = {2, 3}
             /\ Len(rows) = 3
             /\ rows[3]["t_2m"] = None
             /\ rows[1]["u_level61"] = None

\* The locations that contribute a wide table
BuiltLocs == {l \in DOMAIN all_location_data : DOMAIN all_location_data[l] # {}}

\* The sum of the values of a function with a finite domain
RECURSIVE SumFn(_)
SumFn(f) ==
    IF DOMAIN f = {} THEN 0
    ELSE LET x == CHOOSE y \in DOMAIN f : TRUE
         IN f[x] + SumFn([z \in DOMAIN f \ {x} |-> f[z]])

RowsOfLocation(loc) ==
    {i \in 1..Len(combined_df.rows) :
        /\ combined_df.rows[i].latitude = Locations[loc].lat
        /\ combined_df.rows[i].longitude = Locations[loc].lon}

\* C4: the returned table has as many rows as the per-location wide tables
\* together (rows of different locations are never merged), and every row
\* carries the latitude and longitude of the location it was built from.
C4_ConcatAppendsRows ==
    bpc = "returned" =>
        /\ Len(combined_df.rows) =
              SumFn([l \in BuiltLocs |-> Cardinality(UnionTimes(l))])
        /\ Len(combined_df.rows) =
              SumFn([n \in 1..Len(location_dataframes) |->
                        Len(location_dataframes[n].df.rows)])
        /\ \A l \in BuiltLocs :
              /\ Cardinality(RowsOfLocation(l)) = Cardinality(UnionTimes(l))
              /\ {combined_df.rows[i].time : i \in RowsOfLocation(l)} = UnionTimes(l)

\* C4 witness: two locations stacked that share a timestamp
C4_Witness ==
    /\ bpc = "returned"
    /\ Len(location_dataframes) >= 2
    /\ \E i, j \in 1..Len(combined_df.rows) :
          /\ i # j
          /\ combined_df.rows[i].time = combined_df.rows[j].time
          /\ combined_df.rows[i].latitude # combined_df.rows[j].latitude

\* ------------------------------------------------------------------------
\* file_discovery.py: parse_dwd_filename
\* ------------------------------------------------------------------------
\* File names are sequences of characters.
LitPrefix == <<"i", "c", "o", "n", "-", "d", "2", "_", "d", "e", "_",
               "l", "a", "t", "-", "l", "o", "n", "_">>
LitModel == <<"m", "o", "d", "e", "l", "-", "l", "e", "v", "e", "l">>
LitSingle == <<"s", "i", "n", "g", "l", "e", "-", "l", "e", "v", "e", "l">>
LitSuffix == <<".", "g", "r", "b", "2">>
DigitChars == <<"0", "1", "2", "3", "4", "5", "6", "7", "8", "9">>
Digits == {DigitChars[i] : i \in 1..10}

\* int() of one decimal digit
DigitVal(c) == (CHOOSE i \in 1..10 : DigitChars[i] = c) - 1

\* "." of the pattern: any character but a newline
IsDot(c) == c # "\n"

StartsWithAt(s, lit, pos) ==
    /\ pos + Len(lit) - 1 <= Len(s)
    /\ \A k \in 1..Len(lit) : s[pos + k - 1] = lit[k]

AllDigits(s, from, to) ==
    /\ to <= Len(s)
    /\ \A k \in from..to : s[k] \in Digits

\* The places where "\.grb2" can follow a variable that starts at position v
SuffixPlaces(name, v) ==
    {j \in v..Len(name) :
        /\ StartsWithAt(name, LitSuffix, j)
        /\ \A k \in v..(j - 1) : IsDot(name[k])}

\* The underscores that can close a level token which starts at position p:
\* the rest of the pattern, "_(?P<var>.*)\.grb2", must match from there
LevelEnds(name, p) ==
    {i \in p..Len(name) :
        /\ name[i] = "_"
        /\ \A k \in p..(i - 1) : IsDot(name[k])
        /\ SuffixPlaces(name, i + 1) # {}}

\* (mutant) a greedy level token: the last underscore closes it
LevelEndGreedy(name, p) ==
    LET ends == LevelEnds(name, p)
    IN CHOOSE i \in ends : \A k \in ends : k <= i

\* (?P<level_or_2d>.*?) is lazy: the first underscore that lets the rest of
\* the pattern match closes the level token
LevelEnd(name, p) ==
    LET ends == LevelEnds(name, p)
    IN CHOOSE i \in ends : \A k \in ends : i <= k

\* (?P<var>.*) is greedy: the last "\.grb2" ends the variable
VarEnd(name, v) ==
    LET places == SuffixPlaces(name, v)
    IN CHOOSE j \in places : \A k \in places : k <= j

\* re.match(pattern, filename) with the pattern of line 18, and the
\* descriptor of lines 26-42
ParseDwdFilename(name) ==
    LET t == Len(LitPrefix) + 1
        type == IF StartsWithAt(name, LitModel, t) THEN "model-level"
                ELSE IF StartsWithAt(name, LitSingle, t) THEN "single-level"
                ELSE "none"
        u1 == t + (IF type = "model-level" THEN Len(LitModel) ELSE Len(LitSingle))
        u2 == u1 + 11
        u3 == u2 + 4
        headOk == /\ StartsWithAt(name, LitPrefix, 1)
                  /\ type # "none"
                  /\ u3 <= Len(name)
                  /\ name[u1] = "_"
                  /\ AllDigits(name, u1 + 1, u1 + 10)
                  /\ name[u2] = "_"
                  /\ AllDigits(name, u2 + 1, u2 + 3)
                  /\ name[u3] = "_"
    IN IF ~headOk \/ LevelEnds(name, u3 + 1) = {} THEN NoMatch
       ELSE LET le == LevelEnd(name, u3 + 1)
                ve == VarEnd(name, le + 1)
            IN [matched |-> TRUE,
                type |-> type,
                date |-> SubSeq(name, u1 + 1, u1 + 10),
                forecast_hour |-> 100 * DigitVal(name[u2 + 1])
                                  + 10 * DigitVal(name[u2 + 2])
                                  + DigitVal(name[u2 + 3]),
                level |-> IF type = "model-level"
                          THEN Some(SubSeq(name, u3 + 1, le - 1)) ELSE None,
                variable |-> SubSeq(name, le + 1, ve - 1)]

\* --- the file names the parser is tried on ---------------------------------
Underscore == <<"_">>

\* A 3-digit zero-padded forecast hour
Fmt3(h) == <<DigitChars[(h \div 100) + 1], DigitChars[((h \div 10) % 10) + 1],
             DigitChars[(h % 10) + 1]>>

\* Variable names: 1..MaxVarTokens tokens joined by underscores
RECURSIVE JoinTokens(_)
JoinTokens(ts) ==
    IF Len(ts) = 1 THEN ts[1]
    ELSE ts[1] \o Underscore \o JoinTokens(Tail(ts))
VarNames ==
    {JoinTokens(ts) :
        ts \in UNION {[1..n -> {<<"u">>, <<"2", "m">>}] : n \in 1..MaxVarTokens}}

GoodDate == <<"2", "0", "2", "1", "0", "1", "0", "1", "0", "0">>

IdxTail == <<".", "i", "d", "x">>

\* Well-formed pieces and malformed ones: a wrong or missing literal, a run
\* timestamp of 9 or 11 digits, a forecast hour of 2 or 4 digits, an empty
\* level or variable, a truncated suffix, characters after the suffix
NamePieces ==
    [prefix : {LitPrefix, <<"x">> \o LitPrefix, SubSeq(LitPrefix, 1, 11)},
     kind : {LitModel, LitSingle, SubSeq(LitModel, 1, 10)},
     date : {GoodDate, SubSeq(GoodDate, 1, 9), GoodDate \o <<"0">>},
     hour : {Fmt3(h) : h \in (0..MaxHour) \cup {48, 120}}
            \cup {<<"0", "0">>, <<"0", "0", "0", "0">>},
     level : {<<"6", "1">>, <<"2", "d">>, <<>>},
     var : VarNames \cup {<<>>},
     suffix : {LitSuffix, SubSeq(LitSuffix, 1, 4)},
     tail : {<<>>, IdxTail}]

\* The file name put together from its pieces
Assemble(c) ==
    c.prefix \o c.kind \o Underscore \o c.date \o Underscore \o c.hour
    \o Underscore \o c.level \o Underscore \o c.var \o c.suffix \o c.tail

\* The pieces follow the grammar of 4.1: the name matches it as a whole
InGrammar(c) ==
    /\ c.prefix = LitPrefix
    /\ c.kind \in {LitModel, LitSingle}
    /\ Len(c.date) = 10 /\ \A k \in 1..Len(c.date) : c.date[k] \in Digits
    /\ Len(c.hour) = 3 /\ \A k \in 1..Len(c.hour) : c.hour[k] \in Digits
    /\ c.level # <<>> /\ \A k \in 1..Len(c.level) : c.level[k] # "_"
    /\ c.var # <<>>
    /\ c.suffix = LitSuffix
    /\ c.tail = <<>>

InitParse ==
    /\ CollectorIdle
    /\ BuilderIdle
    /\ DiscoveryIdle
    /\ TablesFresh
    /\ PipelineIdle
    /\ ValidatorIdle
    /\ WorkspaceIdle
    /\ parse_input \in NamePieces
    /\ filename = Assemble(parse_input)
    /\ parse_pc = "call"
    /\ parse_result = NoMatch

\* parse_dwd_filename(filename)
Parse ==
    /\ parse_pc = "call"
    /\ parse_result' = ParseDwdFilename(filename)
    /\ parse_pc' = "returned"
    /\ UNCHANGED <<parse_input, filename>>
    /\ UNCHANGED <<collectorVars, builderVars, discoveryVars, tableVars,
                 pipelineVars, validatorVars, workspaceVars>>

NextParse == Parse

SpecParse == InitParse /\ [][NextParse]_vars

\* ------------------------------------------------------------------------
\* Properties of the parser
\* ------------------------------------------------------------------------
\* C8: for a name built from the grammar the parser returns exactly the kind,
\* run timestamp, forecast hour (as an integer), level (null for
\* single-level) and whole variable name the name was built from.
C8_ParseRecoversPieces ==
    (parse_pc = "returned" /\ InGrammar(parse_input)) =>
        /\ parse_result.matched
        /\ parse_result.type =
              (IF parse_input.kind = LitModel THEN "model-level" ELSE "single-level")
        /\ parse_result.date = parse_input.date
        /\ \A h \in 0..999 :
              parse_input.hour = Fmt3(h) => parse_result.forecast_hour = h
        /\ parse_result.level =
              (IF parse_input.kind = LitModel THEN Some(parse_input.level) ELSE None)
        /\ parse_result.variable = parse_input.var

\* C8 witness: a grammar name whose variable holds two underscores, parsed
C8_Witness ==
    /\ parse_pc = "returned"
    /\ InGrammar(parse_input)
    /\ Cardinality({k \in 1..Len(parse_input.var) : parse_input.var[k] = "_"}) = 2
    /\ parse_input.kind = LitModel
    /\ parse_result.matched
    /\ parse_result.forecast_hour = 120

\* C9: a name that does not match the grammar as a whole yields null.
C9_NonGrammarYieldsNull ==
    (parse_pc = "returned" /\ ~InGrammar(parse_input)) => parse_result = NoMatch

\* ------------------------------------------------------------------------
\* file_discovery.py: find_all_files_once, find_variable_files
\* ------------------------------------------------------------------------
LitToday == <<"t", "o", "d", "a", "y">>
LitEps == <<"i", "c", "o", "n", "-", "d", "2", "-", "e", "p", "s">>
Lit2d == <<"2", "d">>

\* substring test: 'icon-d2-eps' in file_path.name
Contains(s, lit) == \E i \in 1..Len(s) : StartsWithAt(s, lit, i)

EndsWith(s, lit) ==
    Len(s) >= Len(lit) /\ StartsWithAt(s, lit, Len(s) - Len(lit) + 1)

\* run_dir.glob("icon-d2_de_*.grb2")
GlobAll(name) ==
    /\ StartsWithAt(name, SubSeq(LitPrefix, 1, 11), 1)
    /\ EndsWith(name, LitSuffix)
    /\ Len(name) >= 11 + Len(LitSuffix)

\* "if level:" - None and the empty string are both false
Truthy(level) == level # None /\ level[1] # <<>>

\* run_dir.glob(pattern) with the pattern of lines 124-127:
\* icon-d2_de_lat-lon_<kind>_*_???_<level or 2d>_<variable>.grb2
GlobVariable(name, variable, level) ==
    LET head == LitPrefix \o (IF Truthy(level) THEN LitModel ELSE LitSingle)
                \o Underscore
        back == Underscore \o (IF Truthy(level) THEN level[1] ELSE Lit2d)
                \o Underscore \o variable \o LitSuffix
    IN /\ Len(name) >= Len(head) + 4 + Len(back)
       /\ StartsWithAt(name, head, 1)
       /\ EndsWith(name, back)
       /\ name[Len(name) - Len(back) - 3] = "_"

\* Path ordering of sorted(): character by character (run directory names
\* are digit strings), a proper prefix first
RECURSIVE LexLess(_, _)
LexLess(a, b) ==
    IF a = <<>> THEN b # <<>>
    ELSE IF b = <<>> THEN FALSE
    ELSE IF Head(a) # Head(b) THEN DigitVal(Head(a)) < DigitVal(Head(b))
    ELSE LexLess(Tail(a), Tail(b))

RECURSIVE SortedNames(_)
SortedNames(S) ==
    IF S = {} THEN <<>>
    ELSE LET m == CHOOSE x \in S : \A y \in S \ {x} : LexLess(x, y)
         IN <<m>> \o SortedNames(S \ {m})

\* (mutant) the run directories in descending order
RunDirsDescending(t) ==
    LET up == SortedNames({d \in DOMAIN t : t[d].is_dir /\ d # LitToday})
    IN [i \in 1..Len(up) |-> up[Len(up) + 1 - i]]

\* sorted([d for d in base_path.iterdir() if d.is_dir() and d.name != 'today'])
RunDirs(t) ==
    SortedNames({d \in DOMAIN t : t[d].is_dir /\ d # LitToday})

\* (mutant) an off-by-one cutoff that drops the files of the cutoff hour
WithinCutoffStrict(hour, cutoff) == hour < cutoff

\* "forecast_hour <= max_forecast_hours" (line 160), and the negation of
\* "forecast_hour > max_forecast_hours" (line 211)
WithinCutoff(hour, cutoff) == hour <= cutoff

\* lines 199-218: the files of one run directory that are kept, each with
\* its path (directory, name) and its key (variable, level), in the order
\* the directory lists them
KeptOfAll(t, d, cutoff) ==
    LET parsed == [i \in 1..Len(t[d].listing) |->
                      ParseDwdFilename(t[d].listing[i])]
        keep == {i \in 1..Len(t[d].listing) :
                    /\ GlobAll(t[d].listing[i])
                    /\ ~Contains(t[d].listing[i], LitEps)
                    /\ parsed[i].matched
                    /\ WithinCutoff(parsed[i].forecast_hour, cutoff)}
        F[i \in 0..Len(t[d].listing)] ==
            IF i = 0 THEN <<>>
            ELSE IF i \in keep
                 THEN Append(F[i - 1],
                        [path |-> <<d, t[d].listing[i]>>,
                         key |-> <<parsed[i].variable, parsed[i].level>>])
                 ELSE F[i - 1]
    IN F[Len(t[d].listing)]

\* find_all_files_once(data_path, max_forecast_hours)
FindAllFilesOnce(t, cutoff) ==
    LET dirs == RunDirs(t)
        all == Flatten([i \in 1..Len(dirs) |-> KeptOfAll(t, dirs[i], cutoff)])
        keys == {all[i].key : i \in 1..Len(all)}
        Under(k) == SelectSeq(all, LAMBDA e : e.key = k)
    IN [k \in keys |-> [i \in 1..Len(Under(k)) |-> Under(k)[i].path]]

\* lines 148-161: the (path, forecast_hour) pairs kept of one run directory
KeptOfVariable(t, d, variable, level, cutoff) ==
    LET parsed == [i \in 1..Len(t[d].listing) |->
                      ParseDwdFilename(t[d].listing[i])]
        keep == {i \in 1..Len(t[d].listing) :
                    /\ GlobVariable(t[d].listing[i], variable, level)
                    /\ ~Contains(t[d].listing[i], LitEps)
                    /\ parsed[i].matched
                    /\ WithinCutoff(parsed[i].forecast_hour, cutoff)}
        F[i \in 0..Len(t[d].listing)] ==
            IF i = 0 THEN <<>>
            ELSE IF i \in keep
                 THEN Append(F[i - 1],
                        <<<<d, t[d].listing[i]>>, parsed[i].forecast_hour>>)
                 ELSE F[i - 1]
    IN F[Len(t[d].listing)]

\* find_variable_files(data_path, variable, level, max_forecast_hours)
FindVariableFiles(t, variable, level, cutoff) ==
    LET dirs == RunDirs(t)
    IN Flatten([i \in 1..Len(dirs) |->
                   KeptOfVariable(t, dirs[i], variable, level, cutoff)])

\* --- the archives discovery is tried on ------------------------------------
VarU == <<"u">>
VarU2m == <<"u", "_", "2", "m">>

FilePiece(kind, h, level, var) ==
    [prefix |-> LitPrefix, kind |-> kind, date |-> GoodDate, hour |-> Fmt3(h),
     level |-> level, var |-> var, suffix |-> LitSuffix, tail |-> <<>>]

\* Deterministic files of two variable keys
DataPieces ==
    {FilePiece(LitModel, h, <<"6", "1">>, VarU) : h \in 0..MaxHour}
    \cup {FilePiece(LitSingle, h, Lit2d, VarU2m) : h \in {0, MaxHour}}

\* An ensemble-marked file and a decode-index file
EpsPiece == FilePiece(LitModel, 0, <<"6", "1">>, LitEps)
IdxPiece == [FilePiece(LitModel, 0, <<"6", "1">>, VarU) EXCEPT !.tail = IdxTail]

\* What a run directory can list: up to MaxListing distinct files (data,
\* ensemble, decode-index and a stray name), in the order the file system
\* yields them
Listings ==
    {l \in UNION {[1..n -> {Assemble(c) : c \in DataPieces \cup {EpsPiece, IdxPiece}}
                              \cup {SubSeq(LitPrefix, 1, 11) \o <<"x">> \o LitSuffix}] :
                     n \in 0..MaxListing} :
        \A i, j \in 1..Len(l) : i # j => l[i] # l[j]}

RunNames == {Fmt3(r) : r \in 1..MaxRuns}

\* data_path holds a plain file, any of the run directories and possibly the
\* reserved in-progress directory with a file that would otherwise be kept
Trees ==
    {runs @@ extra @@ (<<"r", "e", "a", "d", "m", "e">> :> [is_dir |-> FALSE, listing |-> <<>>]) :
        runs \in UNION {[S -> [is_dir : {TRUE}, listing : Listings]] :
                           S \in SUBSET RunNames},
        extra \in {<<>>,
                   LitToday :> [is_dir |-> TRUE,
                                listing |-> <<Assemble(FilePiece(LitModel, 0,
                                                <<"6", "1">>, VarU))>>]}}


InitDiscovery ==
    /\ CollectorIdle
    /\ BuilderIdle
    /\ ParserIdle
    /\ TablesFresh
    /\ PipelineIdle
    /\ ValidatorIdle
    /\ WorkspaceIdle
    /\ tree \in Trees
    /\ max_forecast_hours \in 0..MaxCutoff
    /\ dpc = "ready"
    /\ query = <<>>
    /\ files_by_var = <<>>
    /\ files_to_process = <<>>

ScanAll ==
    /\ dpc = "ready"
    /\ files_by_var' = FindAllFilesOnce(tree, max_forecast_hours)
    /\ dpc' = "all_done"
    /\ UNCHANGED <<tree, max_forecast_hours, query, files_to_process>>
    /\ UNCHANGED <<collectorVars, builderVars, parserVars, tableVars,
                 pipelineVars, validatorVars, workspaceVars>>

ScanVariable(q) ==
    /\ dpc = "ready"
    /\ query' = q
    /\ files_to_process' = FindVariableFiles(tree, q[1], q[2], max_forecast_hours)
    /\ dpc' = "var_done"
    /\ UNCHANGED <<tree, max_forecast_hours, files_by_var>>
    /\ UNCHANGED <<collectorVars, builderVars, parserVars, tableVars,
                 pipelineVars, validatorVars, workspaceVars>>

NextDiscovery ==
    \/ ScanAll
    \/ \E q \in {<<VarU, Some(<<"6", "1">>)>>, <<VarU2m, None>>} : ScanVariable(q)

SpecDiscovery == InitDiscovery /\ [][NextDiscovery]_vars

\* ------------------------------------------------------------------------
\* Properties of discovery
\* ------------------------------------------------------------------------
\* The file names of the archive that follow the grammar, and the forecast
\* hour each was built with
GrammarNames ==
    {Assemble(c) : c \in {p \in DataPieces \cup {EpsPiece, IdxPiece} : InGrammar(p)}}

HourByName ==
    [name \in GrammarNames |->
        CHOOSE h \in 0..MaxHour :
            \E c \in DataPieces \cup {EpsPiece} :
                Assemble(c) = name /\ c.hour = Fmt3(h)]


\* The paths find_all_files_once returned, under any key
ReturnedPaths ==
    UNION {{files_by_var[k][i] : i \in 1..Len(files_by_var[k])} :
              k \in DOMAIN files_by_var}

\* C7: no returned file has a forecast hour above the cutoff, and every
\* grammar-matching, non-ensemble file of a non-reserved run directory
\* whose forecast hour is at most the cutoff is returned.
C7_CutoffRespected ==
    /\ dpc = "all_done" =>
          /\ \A path \in ReturnedPaths :
                /\ path[2] \in GrammarNames
                /\ HourByName[path[2]] <= max_forecast_hours
          /\ \A d \in DOMAIN tree : \A i \in 1..Len(tree[d].listing) :
                LET f == tree[d].listing[i]
                IN (/\ tree[d].is_dir /\ d # LitToday
                    /\ f \in GrammarNames
                    /\ ~Contains(f, LitEps)
                    /\ HourByName[f] <= max_forecast_hours)
                   => <<d, f>> \in ReturnedPaths
    /\ dpc = "var_done" =>
          \A i \in 1..Len(files_to_process) :
              /\ files_to_process[i][1][2] \in GrammarNames
              /\ HourByName[files_to_process[i][1][2]] <= max_forecast_hours
              /\ files_to_process[i][2] <= max_forecast_hours

\* C7 witness: a scan that kept a file of the cutoff hour and left out a
\* file of the same directory whose hour is above the cutoff
C7_Witness ==
    /\ dpc = "all_done"
    /\ \E d \in DOMAIN tree : \E i, j \in 1..Len(tree[d].listing) :
          LET f == tree[d].listing[i]
              g == tree[d].listing[j]
          IN /\ f \in GrammarNames /\ g \in GrammarNames
             /\ HourByName[f] = max_forecast_hours
             /\ HourByName[g] > max_forecast_hours
             /\ <<d, f>> \in ReturnedPaths
             /\ <<d, g>> \notin ReturnedPaths

\* ------------------------------------------------------------------------
\* tables/core.py: Table;  core.py: save_to_duckdb
\* ------------------------------------------------------------------------
\* DwdWeather.table_name
TableName == "L0_DwdWeather"

\* The columns the schema requires (DwdWeatherSchema, cut down to three) and
\* a frame layout that lacks one of them
SchemaColumns == {"time", "t_2m", "latitude"}

\* Row values: t_2m inside and outside Field(ge=200, le=350)
Frames ==
    [columns : {SchemaColumns, {"time", "latitude"}},
     rows : UNION {[1..n -> [t_2m : {250, 400}]] : n \in 0..MaxBatch}]

Modes == {"append", "replace", "upsert"}

\* (mutant) a write that never looks at df.empty
IsEmptyNever(df) == FALSE

\* df.empty
IsEmpty(df) == Len(df.rows) = 0 \/ df.columns = {}

\* _validate_shallow: schema.validate(df.head(0)) - the required columns
\* are there (strict = "filter" lets extra columns pass)
ShallowOk(df) == SchemaColumns \subseteq df.columns

\* _validate_deep: schema.validate(df) - every value is in its range
DeepOk(df) ==
    \A i \in 1..Len(df.rows) : df.rows[i].t_2m >= 200 /\ df.rows[i].t_2m <= 350

Exists(st) == TableName \in DOMAIN st
RowCount(st) == IF Exists(st) THEN Len(st[TableName].rows) ELSE 0

\* INSERT INTO t SELECT * FROM df: positional, needs as many columns
InsertFits(st, df) ==
    Cardinality(st[TableName].columns) = Cardinality(df.columns)

\* (mutant) an append that recreates the table from the batch
StoreAfterAppendOverwriting(st, df) ==
    (TableName :> [columns |-> df.columns, rows |-> df.rows])

\* CREATE TABLE IF NOT EXISTS ... WHERE 1=0; INSERT INTO ... SELECT *
StoreAfterAppend(st, df) ==
    IF Exists(st)
    THEN (TableName :> [columns |-> st[TableName].columns,
                        rows |-> st[TableName].rows \o df.rows])
    ELSE (TableName :> [columns |-> df.columns, rows |-> df.rows])

\* DROP TABLE IF EXISTS; CREATE TABLE ... AS SELECT *
StoreAfterReplace(st, df) ==
    (TableName :> [columns |-> df.columns, rows |-> df.rows])

\* (mutant) a read that treats a table of zero rows as missing
ExistsWithRows(st) == TableName \in DOMAIN st /\ Len(st[TableName].rows) > 0

\* SELECT * FROM table raises CatalogException iff the table is missing
Readable(st) == Exists(st)

\* SELECT COUNT(*) FROM table
CountQuery(st) == Len(st[TableName].rows)

Call(op, outcome, i, mode, df, shallow, deep) ==
    [op |-> op, outcome |-> outcome, instance |-> i, mode |-> mode,
     batch |-> Len(df.rows), rows_before |-> RowCount(store),
     shallow |-> shallow, deep |-> deep]

NoFrame == [columns |-> {}, rows |-> <<>>]

Raise(op, what, i, mode, df, shallow, deep) ==
    /\ last_call' = Call(op, what, i, mode, df, shallow, deep)
    /\ returned' = None

\* lines 127-128: "if validate: self._validate_shallow(df)" - whether the
\* structural check ran on this call, and how it ended
ShallowRun(validate, df) ==
    IF ~validate THEN "not_run"
    ELSE IF ShallowOk(df) THEN "passed" ELSE "failed"

\* lines 127-130: "if validate: ... if deep_validate: self._validate_deep(df)"
\* - whether the caller asked for the deep check, whether it ran on this
\* call, and how it ended (a call that raised before line 129 records
\* "not_reached")
DeepRun(validate, deep_validate, df) ==
    IF ~deep_validate THEN "not_requested"
    ELSE IF ~validate THEN "not_run"
    ELSE IF DeepOk(df) THEN "passed" ELSE "failed"

\* Table.write(df, mode, validate, deep_validate), lines 118-157
Write(i, df, mode, validate, deep_validate) ==
    /\ UNCHANGED <<collectorVars, builderVars, parserVars, discoveryVars,
                   pipelineVars, validatorVars, workspaceVars>>
    /\ IF mode \notin {"append", "replace"} \/ IsEmpty(df)
       THEN /\ Raise("write", "ValueError", i, mode, df, "not_run",
                     "not_reached")
            /\ UNCHANGED <<store, shape_cache>>
       ELSE IF ShallowRun(validate, df) = "failed"
       THEN /\ Raise("write", "ShallowFailed", i, mode, df, "failed",
                     "not_reached")
            /\ UNCHANGED <<store, shape_cache>>
       ELSE IF DeepRun(validate, deep_validate, df) = "failed"
       THEN /\ Raise("write", "DeepFailed", i, mode, df, "passed", "failed")
            /\ UNCHANGED <<store, shape_cache>>
       ELSE IF mode = "append" /\ Exists(store) /\ ~InsertFits(store, df)
       THEN /\ Raise("write", "InsertFailed", i, mode, df,
                     ShallowRun(validate, df),
                     DeepRun(validate, deep_validate, df))
            /\ UNCHANGED <<store, shape_cache>>
       ELSE /\ mode = "append" => RowCount(store) + Len(df.rows) <= MaxRows
            /\ store' = IF mode = "replace" THEN StoreAfterReplace(store, df)
                        ELSE StoreAfterAppend(store, df)
            /\ shape_cache' =
                  [shape_cache EXCEPT
                      ![i] = Some(<<CountQuery(store'), Cardinality(df.columns)>>)]
            /\ last_call' = Call("write", "ok", i, mode, df,
                                 ShallowRun(validate, df),
                                 DeepRun(validate, deep_validate, df))
            /\ returned' = None

\* Table.read(), lines 172-186
Read(i) ==
    /\ UNCHANGED <<collectorVars, builderVars, parserVars, discoveryVars,
                   pipelineVars, validatorVars, workspaceVars>>
    /\ UNCHANGED store
    /\ IF Readable(store)
       THEN /\ shape_cache' =
                  [shape_cache EXCEPT
                      ![i] = Some(<<Len(store[TableName].rows),
                                    Cardinality(store[TableName].columns)>>)]
            /\ last_call' = Call("read", "ok", i, "none", NoFrame, "not_run",
                                 "not_requested")
            /\ returned' = Some(store[TableName])
       ELSE /\ Raise("read", "NotFound", i, "none", NoFrame, "not_run",
                     "not_requested")
            /\ UNCHANGED shape_cache

\* Table.shape, lines 214-229
Shape(i) ==
    /\ UNCHANGED <<collectorVars, builderVars, parserVars, discoveryVars,
                   pipelineVars, validatorVars, workspaceVars>>
    /\ UNCHANGED store
    /\ last_call' = Call("shape", "ok", i, "none", NoFrame, "not_run",
                        "not_requested")
    /\ IF shape_cache[i] # None
       THEN /\ returned' = shape_cache[i]
            /\ UNCHANGED shape_cache
       ELSE IF ~Exists(store)
       THEN /\ returned' = None
            /\ UNCHANGED shape_cache
       ELSE /\ shape_cache' =
                  [shape_cache EXCEPT
                      ![i] = Some(<<CountQuery(store),
                                    Cardinality(store[TableName].columns)>>)]
            /\ returned' = shape_cache'[i]

\* save_to_duckdb(df, table_name, mode), core.py:21-40
SaveToDuckdb(df, mode) ==
    /\ UNCHANGED <<collectorVars, builderVars, parserVars, discoveryVars,
                   pipelineVars, validatorVars, workspaceVars>>
    /\ UNCHANGED shape_cache
    /\ IF mode \notin {"append", "replace"}
       THEN /\ Raise("save", "ValueError", 0, mode, df, "not_run",
                     "not_requested")
            /\ UNCHANGED store
       ELSE IF mode = "append" /\ Exists(store) /\ ~InsertFits(store, df)
       THEN /\ Raise("save", "InsertFailed", 0, mode, df, "not_run",
                     "not_requested")
            /\ UNCHANGED store
       ELSE /\ mode = "append" => RowCount(store) + Len(df.rows) <= MaxRows
            /\ store' = IF mode = "replace" THEN StoreAfterReplace(store, df)
                        ELSE StoreAfterAppend(store, df)
            /\ last_call' = Call("save", "ok", 0, mode, df, "not_run",
                                 "not_requested")
            /\ returned' = None

InitTable ==
    /\ CollectorIdle
    /\ BuilderIdle
    /\ ParserIdle
    /\ DiscoveryIdle
    /\ TablesFresh
    /\ PipelineIdle
    /\ ValidatorIdle
    /\ WorkspaceIdle

NextTable ==
    \/ \E i \in Instances, df \in Frames, mode \in Modes,
          validate \in BOOLEAN, deep_validate \in BOOLEAN :
            Write(i, df, mode, validate, deep_validate)
    \/ \E i \in Instances : Read(i)
    \/ \E i \in Instances : Shape(i)
    \/ \E df \in Frames, mode \in Modes : SaveToDuckdb(df, mode)

SpecTable == InitTable /\ [][NextTable]_vars

\* ------------------------------------------------------------------------
\* Properties of the table store
\* ------------------------------------------------------------------------
\* C10: a successful append of k rows raises the stored row count by exactly
\* k, a successful replace of k rows makes it exactly k, and the row count
\* recorded by the write is the count the store holds afterwards.
C10_WriteRowCounts ==
    (last_call.op = "write" /\ last_call.outcome = "ok")
    => /\ Exists(store)
       /\ last_call.mode = "append" =>
             RowCount(store) = last_call.rows_before + last_call.batch
       /\ last_call.mode = "replace" => RowCount(store) = last_call.batch
       /\ shape_cache[last_call.instance] # None
       /\ shape_cache[last_call.instance][1][1] = RowCount(store)

\* C10 witness: an append of one row just succeeded on a table that held one
\* row, and the count it recorded is the cumulative one
C10_Witness ==
    /\ last_call.op = "write" /\ last_call.outcome = "ok"
    /\ last_call.mode = "append"
    /\ last_call.rows_before = 1 /\ last_call.batch = 1
    /\ shape_cache[last_call.instance] = Some(<<2, 3>>)

\* C11: a Table.write with an empty table, or with a mode other than
\* "append" or "replace", fails with ValueError and leaves the store (no
\* table created, dropped or changed; same row count) and every cached shape
\* as they were before the call.
C11_ContractViolationRejected ==
    [][(last_call'.op = "write"
          /\ (last_call'.batch = 0
                \/ last_call'.mode \notin {"append", "replace"}))
       => /\ last_call'.outcome = "ValueError"
          /\ store' = store
          /\ RowCount(store') = last_call'.rows_before
          /\ shape_cache' = shape_cache]_vars

\* C11 witness: an empty write in a valid mode was just rejected while the
\* table held rows and the instance had a cached shape
C11_Witness ==
    /\ last_call.op = "write" /\ last_call.outcome = "ValueError"
    /\ last_call.batch = 0 /\ last_call.mode = "replace"
    /\ RowCount(store) = 2
    /\ shape_cache[last_call.instance] = Some(<<2, 3>>)

\* C12: every Table.write that changed the store ran the structural
\* (shallow) validation first and passed it, whatever its arguments were.
C12_ShallowAlwaysBeforeWrite ==
    (last_call.op = "write" /\ last_call.outcome = "ok")
    => last_call.shallow = "passed"

\* C13: Table.read returns the full contents of the table exactly when the
\* table exists - a table of zero rows included - and ends with the
\* not-found error exactly when it does not exist.
C13_ReadDistinguishesMissingFromEmpty ==
    last_call.op = "read"
    => /\ last_call.outcome \in {"ok", "NotFound"}
       /\ last_call.outcome = "ok" <=> TableName \in DOMAIN store
       /\ last_call.outcome = "ok" =>
             /\ returned = Some(store[TableName])
             /\ Len(returned[1].rows) = last_call.rows_before
       /\ last_call.outcome = "NotFound" => returned = None

\* C13 witness: a read of a table that exists with zero rows returned an
\* empty result
C13_Witness ==
    /\ last_call.op = "read" /\ last_call.outcome = "ok"
    /\ TableName \in DOMAIN store
    /\ returned # None
    /\ returned[1].rows = <<>>

\* C21: whatever writes and reads came before, Table.shape reports the row
\* count the store holds for the table at the time of the call, and None
\* when the table does not exist - also when the table was last changed
\* through another Table instance or through save_to_duckdb.
C21_ShapeReportsStoredRows ==
    last_call.op = "shape"
    => IF Exists(store)
       THEN returned # None /\ returned[1][1] = RowCount(store)
       ELSE returned = None

\* C22: every Table.write called with deep_validate=True, whatever the
\* validate flag, changes the store only after the deep validation of the
\* rows ran and passed, and a write whose deep validation failed ends with
\* that failure and leaves the store unchanged.
C22_DeepRequestedAlwaysRuns ==
    [][(last_call'.op = "write"
          /\ last_call'.deep \notin {"not_requested", "not_reached"})
       => /\ (last_call'.outcome = "ok" \/ store' # store)
                => last_call'.deep = "passed"
          /\ last_call'.deep = "failed"
                => last_call'.outcome = "DeepFailed" /\ store' = store]_vars

\* ------------------------------------------------------------------------
\* Completion order of the collector
\* ------------------------------------------------------------------------
\* C15: for a fixed file list, fixed locations and fixed extractor outputs
\* the returned series are the same for every completion order of the
\* chunks: every run returns what the run completing in submission order
\* returns.
C15_CompletionOrderIrrelevant ==
    pc = "returned" =>
        LET chunks == Chunks(file_paths, cpu_count)
            F[k \in 0..Len(chunks)] ==
                IF k = 0 THEN <<>>
                ELSE MergeChunk(F[k - 1],
                                ProcessChunk(chunks[k], extract).results)
        IN result_dfs = BuildResultDfs(F[Len(chunks)])

\* ------------------------------------------------------------------------
\* Stacking locations whose columns differ
\* ------------------------------------------------------------------------
\* The column names of a frame, as a set
ColumnSet(df) == {df.columns[i] : i \in 1..Len(df.columns)}

\* C16: when the per-location wide tables do not all have the same variable
\* columns, build_dataset still returns the stacked table, with the union of
\* the columns of all locations and one row for every row of every location,
\* and raises no error.
C16_UnionOfColumnsStacked ==
    (/\ bpc \in {"returned", "raised"}
     /\ \E i, j \in 1..Len(location_dataframes) :
            ColumnSet(location_dataframes[i].df)
                # ColumnSet(location_dataframes[j].df))
    => /\ bpc = "returned"
       /\ ColumnSet(combined_df) =
             UNION {ColumnSet(location_dataframes[i].df) :
                        i \in 1..Len(location_dataframes)}
       /\ Len(combined_df.rows) =
             SumFn([i \in 1..Len(location_dataframes) |->
                        Len(location_dataframes[i].df.rows)])

\* ------------------------------------------------------------------------
\* Order of the file index
\* ------------------------------------------------------------------------
\* The run a run directory holds, by the number its name was built from
RunNumber(d) == CHOOSE r \in 1..MaxRuns : Fmt3(r) = d

\* The (variable, level) a grammar name was built with (level null for a
\* single-level file)
KeyByName ==
    [name \in GrammarNames |->
        LET c == CHOOSE p \in DataPieces \cup {EpsPiece} : Assemble(p) = name
        IN <<c.var, IF c.kind = LitModel THEN Some(c.level) ELSE None>>]

\* The places (key, position) of the index that hold a path
PlacesOf(path) ==
    {<<k, i>> \in UNION {{k} \X (1..Len(files_by_var[k])) :
                            k \in DOMAIN files_by_var} :
        files_by_var[k][i] = path}

\* C19: in every list of the index of find_all_files_once the files of a run
\* directory that sorts earlier precede the files of one that sorts later;
\* no file of the reserved in-progress directory appears; every retained
\* file appears exactly once, under the key of its parsed (variable, level).
C19_IndexOrderedByRun ==
    dpc = "all_done" =>
        /\ \A k \in DOMAIN files_by_var :
              \A i, j \in 1..Len(files_by_var[k]) :
                  RunNumber(files_by_var[k][i][1])
                      < RunNumber(files_by_var[k][j][1]) => i < j
        /\ \A path \in ReturnedPaths :
              /\ path[1] # LitToday
              /\ path[1] \in RunNames
              /\ Cardinality(PlacesOf(path)) = 1
              /\ \A pl \in PlacesOf(path) : pl[1] = KeyByName[path[2]]

\* C19 witness: an index with a list that holds files of two run directories
\* and a second key, built from an archive that has the reserved directory
C19_Witness ==
    /\ dpc = "all_done"
    /\ LitToday \in DOMAIN tree
    /\ Cardinality(DOMAIN files_by_var) = 2
    /\ \E k \in DOMAIN files_by_var :
          \E i, j \in 1..Len(files_by_var[k]) :
              RunNumber(files_by_var[k][i][1]) < RunNumber(files_by_var[k][j][1])

\* ------------------------------------------------------------------------
\* The collector on a long file list
\* ------------------------------------------------------------------------
\* A list of LongFiles files on a host of unknown CPU count (4 workers):
\* chunks of two files.  One file fails, one yields a sample for location 1,
\* and the location lookups of the others find nothing.

InitLong ==
    /\ BuilderIdle
    /\ ParserIdle
    /\ DiscoveryIdle
    /\ TablesFresh
    /\ PipelineIdle
    /\ ValidatorIdle
    /\ WorkspaceIdle
    /\ cpu_count = 0
    /\ file_paths = [i \in 1..LongFiles |-> i]
    /\ \E pat \in {<<1, 2>>, <<4, 3>>, <<2, 3>>} :
          extract = [i \in 1..LongFiles |->
                        IF i = pat[1] THEN [ok |-> FALSE]
                        ELSE IF i = pat[2]
                        THEN [ok |-> TRUE, time |-> 1, vals |-> (1 :> 1)]
                        ELSE [ok |-> TRUE, time |-> 1, vals |-> <<>>]]
    /\ pc = "submit"
    /\ pending = {}
    /\ location_data = <<>>
    /\ total_processed = 0
    /\ total_failed = 0
    /\ result_dfs = <<>>

\* process_variable_from_files on the short lists of Init and on the long ones
SpecChunked == (Init \/ InitLong) /\ [][Next]_vars

\* The files of the chunks whose result the coordinator has merged
CompletedFiles ==
    LET chunks == Chunks(file_paths, cpu_count)
    IN IF pc = "submit" THEN {}
       ELSE UNION {{chunks[c][i] : i \in 1..Len(chunks[c])} :
                      c \in (DOMAIN chunks) \ pending}

\* How often sample smp occurs in the merged list of location loc
Occurrences(loc, smp) ==
    IF loc \in DOMAIN location_data
    THEN Cardinality({i \in 1..Len(location_data[loc]) :
                         location_data[loc][i] = smp})
    ELSE 0

\* The files among done that yielded sample smp for location loc
Yielding(done, loc, smp) ==
    {f \in done :
        /\ extract[f].ok
        /\ loc \in DOMAIN extract[f].vals
        /\ smp = [time |-> extract[f].time, value |-> extract[f].vals[loc]]}

\* C18: the chunks partition the file list in list order; every file of a
\* completed chunk was attempted exactly once (counted as processed or as
\* failed, never both, never again), so at the end total_processed +
\* total_failed is the number of files; a failing file contributes no sample
\* and stops no other file: the merged samples of a location are exactly the
\* samples of the successfully processed files.
C18_EveryFileAttemptedOnce ==
    LET chunks == Chunks(file_paths, cpu_count)
        done == CompletedFiles
    IN /\ Flatten(chunks) = file_paths
       /\ \A c \in DOMAIN chunks : chunks[c] # <<>>
       /\ total_processed = Cardinality({f \in done : extract[f].ok})
       /\ total_failed = Cardinality({f \in done : ~extract[f].ok})
       /\ (pc \in {"returned", "raised"}) =>
              total_processed + total_failed = Len(file_paths)
       /\ \A loc \in Locs :
              \A smp \in [time : Times, value : Values] :
                  Occurrences(loc, smp) = Cardinality(Yielding(done, loc, smp))
       /\ \A loc \in DOMAIN location_data :
              \A i \in 1..Len(location_data[loc]) :
                  location_data[loc][i] \in [time : Times, value : Values]

\* C18 witness: the run over the long list returned; the file after the
\* failing one, in the same chunk, gave its sample
C18_Witness ==
    /\ pc = "returned"
    /\ Len(file_paths) = LongFiles
    /\ ChunkSize(Len(file_paths), cpu_count) = 2
    /\ ~extract[1].ok /\ extract[2].ok
    /\ total_failed = 1 /\ total_processed = LongFiles - 1
    /\ location_data = (1 :> <<[time |-> 1, value |-> 1]>>)

\* ------------------------------------------------------------------------
\* The pipeline run: process_variable_from_files for every variable key of
\* the catalog, then build_dataset
\* ------------------------------------------------------------------------
\* (mutant) a column name that leaves the level out
ColNameBare(variable, level) == variable

\* processor.py:52: f"{variable}_level{level}" if level else variable
ColName(variable, level) ==
    IF level # None /\ level[1] # ""
    THEN variable \o "_level" \o level[1]
    ELSE variable

\* The catalog {"t_2m": [null], "u": ["61"]} as variable keys
KeyT2m == [variable |-> "t_2m", level |-> None]
KeyU61 == [variable |-> "u", level |-> Some("61")]

\* The file index: two t_2m files (files 1, 2) and one u level-61 file (3)
FilesOf(key) == IF key = KeyT2m THEN <<1, 2>> ELSE <<3>>

\* The valid times of the three files: T0, T0 + 1h, T0

\* The location the run is configured with
RunLoc == 1

InitEndToEnd ==
    /\ BuilderIdle
    /\ ParserIdle
    /\ DiscoveryIdle
    /\ TablesFresh
    /\ ValidatorIdle
    /\ WorkspaceIdle
    /\ cpu_count \in CpuCounts
    /\ \E order \in {<<KeyT2m, KeyU61>>, <<KeyU61, KeyT2m>>} :
          /\ current = Some(order[1])
          /\ todo = Tail(order)
          /\ file_paths = FilesOf(order[1])
    /\ \E v \in [1..3 -> Values] :
          extract = [f \in 1..3 |->
                        [ok |-> TRUE, time |-> <<1, 2, 1>>[f],
                         vals |-> (RunLoc :> v[f])]]
    /\ pc = "submit"
    /\ pending = {}
    /\ location_data = <<>>
    /\ total_processed = 0
    /\ total_failed = 0
    /\ result_dfs = <<>>

\* The run takes the series process_variable_from_files returned, files them
\* under the column name of the key, and goes on to the next key; after the
\* last key it calls build_dataset
Gather ==
    /\ pc = "returned"
    /\ current # None
    /\ LET col == ColName(current[1].variable, current[1].level)
           locs == (DOMAIN all_location_data) \cup (DOMAIN result_dfs)
       IN all_location_data' =
             [loc \in locs |->
                 LET old == IF loc \in DOMAIN all_location_data
                            THEN all_location_data[loc] ELSE <<>>
                 IN IF loc \in DOMAIN result_dfs
                    THEN [c \in (DOMAIN old) \cup {col} |->
                             IF c = col THEN result_dfs[loc] ELSE old[c]]
                    ELSE old]
    /\ IF todo # <<>>
       THEN /\ current' = Some(Head(todo))
            /\ todo' = Tail(todo)
            /\ file_paths' = FilesOf(Head(todo))
            /\ pc' = "submit"
            /\ bpc' = bpc
       ELSE /\ current' = None
            /\ todo' = todo
            /\ file_paths' = <<>>
            /\ pc' = "idle"
            /\ bpc' = "start"
    /\ pending' = {}
    /\ location_data' = <<>>
    /\ total_processed' = 0
    /\ total_failed' = 0
    /\ result_dfs' = <<>>
    /\ UNCHANGED <<cpu_count, extract, location_dataframes, combined_df>>
    /\ UNCHANGED <<parserVars, discoveryVars, tableVars, validatorVars,
                   workspaceVars>>

NextEndToEnd ==
    \/ Submit
    \/ \E c \in pending : ChunkCompleted(c)
    \/ Finish
    \/ Gather
    \/ \E order \in Orders(DOMAIN all_location_data) : BuildDataset(order)

SpecEndToEnd == InitEndToEnd /\ [][NextEndToEnd]_vars

\* C14: with one location, the catalog {t_2m: [null], u: ["61"]}, two t_2m
\* files at T0 and T0 + 1h and one u level-61 file at T0, the table returned
\* by build_dataset has exactly the 2 rows of T0 and T0 + 1h and the columns
\* time, t_2m, u_level61, latitude, longitude in that order; u_level61 holds
\* the value of the u file at T0 and is null at T0 + 1h.
C14_EndToEndTable ==
    bpc \in {"returned", "raised"} =>
        /\ bpc = "returned"
        /\ combined_df.columns =
              <<"time", "t_2m", "u_level61", "latitude", "longitude">>
        /\ Len(combined_df.rows) = 2
        /\ combined_df.rows[1] =
              [time |-> 1,
               t_2m |-> Some(extract[1].vals[RunLoc]),
               u_level61 |-> Some(extract[3].vals[RunLoc]),
               latitude |-> Locations[RunLoc].lat,
               longitude |-> Locations[RunLoc].lon]
        /\ combined_df.rows[2] =
              [time |-> 2,
               t_2m |-> Some(extract[2].vals[RunLoc]),
               u_level61 |-> None,
               latitude |-> Locations[RunLoc].lat,
               longitude |-> Locations[RunLoc].lon]

\* C14 witness: a run on an 8-core host, with different t_2m values in the
\* two files, has returned the two-row table
C14_Witness ==
    /\ bpc = "returned"
    /\ cpu_count = 8
    /\ Len(combined_df.rows) = 2
    /\ extract[1].vals[RunLoc] # extract[2].vals[RunLoc]
    /\ combined_df.rows[2].u_level61 = None

\* ------------------------------------------------------------------------
\* tables/core.py: Table._validate_deep
\* ------------------------------------------------------------------------
\* Row values below, inside and above the ranges of the schema
DeepFrames ==
    UNION {[1..n -> [t_2m : {100, 250, 400}, latitude : {-95, 50, 95}]] :
              n \in 0..MaxDeepRows}

\* The range checks of DwdWeatherSchema in the order of its fields:
\* t_2m: Field(ge=200, le=350), latitude: Field(ge=-90, le=90)
RangeChecks ==
    <<[column |-> "t_2m", check |-> "ge", bound |-> 200],
      [column |-> "t_2m", check |-> "le", bound |-> 350],
      [column |-> "latitude", check |-> "ge", bound |-> -90],
      [column |-> "latitude", check |-> "le", bound |-> 90]>>

CellOf(row, column) == IF column = "t_2m" THEN row.t_2m ELSE row.latitude

\* The rows of the frame that fail one check
FailureCases(rows, chk) ==
    {[index |-> i, column |-> chk.column, check |-> chk.check] :
        i \in {k \in 1..Len(rows) :
                  IF chk.check = "ge"
                  THEN ~(CellOf(rows[k], chk.column) >= chk.bound)
                  ELSE ~(CellOf(rows[k], chk.column) <= chk.bound)}}

\* schema.validate(df, lazy=False): the first check that fails raises a
\* SchemaError that carries the failure cases of that check alone
ValidateFailFast(rows) ==
    LET failing == {c \in DOMAIN RangeChecks :
                       FailureCases(rows, RangeChecks[c]) # {}}
    IN IF failing = {} THEN {}
       ELSE FailureCases(rows,
                RangeChecks[CHOOSE c \in failing : \A d \in failing : c <= d])

InitValidate ==
    /\ CollectorIdle
    /\ BuilderIdle
    /\ ParserIdle
    /\ DiscoveryIdle
    /\ TablesFresh
    /\ PipelineIdle
    /\ WorkspaceIdle
    /\ deep_input \in DeepFrames
    /\ deep_pc = "call"
    /\ deep_report = {}

\* _validate_deep(df), lines 81-89: pass, or log the error and its failure
\* cases and raise
ValidateDeep ==
    /\ deep_pc = "call"
    /\ deep_report' = ValidateFailFast(deep_input)
    /\ deep_pc' = IF deep_report' = {} THEN "passed" ELSE "failed"
    /\ UNCHANGED deep_input
    /\ UNCHANGED <<collectorVars, builderVars, parserVars, discoveryVars,
                   tableVars, pipelineVars, workspaceVars>>

NextValidate == ValidateDeep

SpecValidate == InitValidate /\ [][NextValidate]_vars

\* Every (row, column) of the input whose value is outside its range
Violations(rows) ==
    {<<i, col>> \in (1..Len(rows)) \X {"t_2m", "latitude"} :
        \/ col = "t_2m" /\ ~(rows[i].t_2m >= 200 /\ rows[i].t_2m <= 350)
        \/ col = "latitude"
             /\ ~(rows[i].latitude >= -90 /\ rows[i].latitude <= 90)}

\* C17: deep validation fails exactly when some value is outside its range,
\* and the failure it reports covers every violating row and column of the
\* input, not only the first one met.
C17_DeepReportsAllViolations ==
    deep_pc \in {"passed", "failed"} =>
        /\ deep_pc = "failed" <=> Violations(deep_input) # {}
        /\ {<<fc.index, fc.column>> : fc \in deep_report}
              = Violations(deep_input)

\* ------------------------------------------------------------------------
\* grib_reader.py: the scratch workspace TEMP_DIR and the pool's workers
\* ------------------------------------------------------------------------
Workers == 1..NumWorkers

\* How the platform starts the processes of ProcessPoolExecutor: a forked
\* worker inherits the loaded modules, a spawned one imports them itself

\* The index artifact of a file: TEMP_DIR / "<name>_<md5 of the path>.idx"
\* (files are numbered; every file has its own name and its own path)
IndexOf(f) == [name |-> f, hash |-> f]

\* TEMP_DIR.glob(f"{path_obj.name}*.idx")
GlobIndex(ws, f) == {a \in ws : a.name = f}

\* Module level, lines 11-14: rmtree(TEMP_DIR), mkdir
ResetWorkspace(ws) == {}

InitWorkspace ==
    /\ CollectorIdle
    /\ BuilderIdle
    /\ ParserIdle
    /\ DiscoveryIdle
    /\ TablesFresh
    /\ PipelineIdle
    /\ ValidatorIdle
    /\ start_method \in {"fork", "spawn"}
    /\ wpc = "import"
    /\ workspace \in SUBSET {[name |-> 0, hash |-> 0]}
    /\ workers = [w \in Workers |-> [state |-> "unstarted", file |-> 0]]
    /\ \E n \in 1..MaxWorkFiles : work_queue = [i \in 1..n |-> i]

\* The coordinating process imports grib_reader (through processor.py)
ImportMain ==
    /\ wpc = "import"
    /\ workspace' = ResetWorkspace(workspace)
    /\ wpc' = "pool"
    /\ UNCHANGED <<start_method, workers, work_queue>>
    /\ UNCHANGED <<collectorVars, builderVars, parserVars, discoveryVars,
                   tableVars, pipelineVars, validatorVars>>

\* The pool starts worker w; a spawned worker imports processor.py and with
\* it grib_reader, whose module level runs again
WorkerStart(w) ==
    /\ wpc = "pool"
    /\ workers[w].state = "unstarted"
    /\ workspace' = IF start_method = "spawn"
                    THEN ResetWorkspace(workspace) ELSE workspace
    /\ workers' = [workers EXCEPT ![w].state = "idle"]
    /\ UNCHANGED <<start_method, wpc, work_queue>>
    /\ UNCHANGED <<collectorVars, builderVars, parserVars, discoveryVars,
                   tableVars, pipelineVars, validatorVars>>

\* extract_multiple_points, lines 33-52: worker w opens the next file with
\* its own index path
BeginDecode(w) ==
    /\ wpc = "pool"
    /\ workers[w].state = "idle"
    /\ work_queue # <<>>
    /\ workspace' = workspace \cup {IndexOf(Head(work_queue))}
    /\ workers' = [workers EXCEPT ![w] = [state |-> "decoding",
                                          file |-> Head(work_queue)]]
    /\ work_queue' = Tail(work_queue)
    /\ UNCHANGED <<start_method, wpc>>
    /\ UNCHANGED <<collectorVars, builderVars, parserVars, discoveryVars,
                   tableVars, pipelineVars, validatorVars>>

\* extract_multiple_points, lines 86-97: the finally block unlinks the index
\* files that match the file's name
EndDecode(w) ==
    /\ wpc = "pool"
    /\ workers[w].state = "decoding"
    /\ workspace' = workspace \ GlobIndex(workspace, workers[w].file)
    /\ workers' = [workers EXCEPT ![w] = [state |-> "idle", file |-> 0]]
    /\ UNCHANGED <<start_method, wpc, work_queue>>
    /\ UNCHANGED <<collectorVars, builderVars, parserVars, discoveryVars,
                   tableVars, pipelineVars, validatorVars>>

NextWorkspace ==
    \/ ImportMain
    \/ \E w \in Workers : WorkerStart(w)
    \/ \E w \in Workers : BeginDecode(w)
    \/ \E w \in Workers : EndDecode(w)

SpecWorkspace == InitWorkspace /\ [][NextWorkspace]_vars

\* C20: while a worker is decoding a file its index artifact is in the
\* workspace: no reset of the workspace and no cleanup of another worker
\* removes it, however worker start-up and extraction interleave.
C20_IndexKeptWhileDecoding ==
    \A w \in Workers :
        workers[w].state = "decoding" => IndexOf(workers[w].file) \in workspace

====
